---- MODULE Spec2Model ----
(***************************************************************************)
(* Summarization orchestration engine of ai-summary:                       *)
(*   AiEngineService.summarize     (src/src/ai-engine/ai-engine.service.ts)*)
(*   StuffService.summarize        (.../summarization-algorithm/           *)
(*                                   stuff.service.ts)                     *)
(*   MapReduceService              (src/unnamed/part_016, lines 244-565)   *)
(*   GoogleDocService.generateDocument (src/src/google-doc/...)            *)
(*                                                                         *)
(* One call is one index of Inv: an HTTP request to                         *)
(* AiEngineService.summarize, or a call of MapReduceService.summarize by   *)
(* another caller.  MapReduceService is a singleton whose fields (llm,     *)
(* prompts, maxTokens) are written by initialize() at the start of every   *)
(* summarize call and read by the graph nodes afterwards, each field at    *)
(* the moment the node's code reaches it.  A node is one action per        *)
(* stretch of its code between two awaits: a model call is issued in one   *)
(* action and returns or throws in a later one, and the other tasks of the *)
(* superstep and the other calls of summarize run in between.              *)
(* Token counts are scaled down: a text is represented by its token count  *)
(* and its provenance, a model by the (provider, model) pair it was built  *)
(* from.                                                                   *)
(***************************************************************************)
EXTENDS Integers, Sequences, FiniteSets, TLC

\* ---------------------------------------------------------------- bounds
MaxChunks == 3        \* chunks the splitter may produce for one request
MaxTok == 2           \* token count of one model output (1..MaxTok)
MaxThreshold == 3     \* maxTokens argument of MapReduceService.summarize

\* ------------------------------------------------------ program constants
MAX_TOKENS == 100000  \* AiEngineService.MAX_TOKENS
RecursionLimit == 10  \* app.stream(..., { recursionLimit: 10 })

Inv == {1, 2}
Chunk == 1..MaxChunks
Sizes == 1..MaxTok
Thresholds == 0..MaxThreshold

\* "undefined": the field is omitted from the request
Providers == {"openai", "google", "azure", "undefined"}
OpenAIModels == {"gpt-3.5-turbo", "gpt-4", "gpt-4o-mini"}
GoogleModels == {"gemini-2.0-flash"}
Models == {"gpt-4o-mini", "gemini-2.0-flash", "llama", "undefined"}
Algorithms == {"stuff", "map-reduce", "auto", "undefined"}

\* token counts of the slack document, around the stuff threshold, and of
\* the optional github document
SlackTokens == {MAX_TOKENS - 1, MAX_TOKENS}
GithubTokens == {1}

\* chunkSize and chunkOverlap of MapReduceService.summarize: the parameter
\* defaults, and the values a caller that passes numbers may pass
DefaultChunkSize == 20000
DefaultChunkOverlap == 0
ChunkSizes == {DefaultChunkSize, 1000}
ChunkOverlaps == {DefaultChunkOverlap, DefaultChunkSize}

RawOutputs == {"valid", "otherShape", "emptyObject", "null", "unparsable"}

NoLlm == <<"none", "none">>
NoContent == [chunks |-> {}, tok |-> 0, gen |-> 0]

\* ----------------------------------------------------- JavaScript values
\* chunkSize, chunkOverlap and maxTokens of MapReduceService.summarize are
\* numbers for a caller that passes numbers.  AiEngineService.summarize passes
\* this.prompt, mapTemplate and reduceTemplate, three langfuse prompt client
\* objects, in these positions.  An object is written as a negative number,
\* one per client; every number of the program is >= 0.
PromptClient == -1
MapTemplateClient == -2
ReduceTemplateClient == -3

IsObject(v) == v < 0

\* a > b and a >= b of JavaScript.  An object operand converts to the string
\* "[object Object]": two objects compare as two equal strings; an object and
\* a number compare as NaN and the number, which is false for > and for >=.
Greater(a, b) == IF IsObject(a) \/ IsObject(b) THEN FALSE ELSE a > b

GreaterOrEqual(a, b) ==
    IF IsObject(a) /\ IsObject(b) THEN TRUE
    ELSE IF IsObject(a) \/ IsObject(b) THEN FALSE
    ELSE a >= b

\* ------------------------------------------------------------- helpers
RECURSIVE SumSeq(_)
SumSeq(s) == IF s = <<>> THEN 0 ELSE Head(s) + SumSeq(Tail(s))

Range(s) == {s[k] : k \in 1..Len(s)}

\* llm.getNumTokens(text)
getNumTokens(content) == content.tok

\* new Document({ pageContent })
Document(content) == [pageContent |-> content]

\* MapReduceService.lengthFunction: sum of the per-document token counts
lengthFunctionMut(documents) ==
    SumSeq([k \in 1..Len(documents) |->
              IF k > 1 /\ getNumTokens(documents[k].pageContent)
                            = getNumTokens(documents[k - 1].pageContent)
              THEN 0 ELSE getNumTokens(documents[k].pageContent)])

lengthFunction(documents) ==
    SumSeq([k \in 1..Len(documents) |-> getNumTokens(documents[k].pageContent)])

\* AiEngineService.validateModel
validateModelMut(provider, model) ==
    IF provider = "google" THEN model \in GoogleModels
    ELSE model \in OpenAIModels

validateModel(provider, model) ==
    IF provider = "openai" THEN model \in OpenAIModels
    ELSE IF provider = "google" THEN model \in GoogleModels
    ELSE FALSE

\* The branch condition of AiEngineService.summarize, for a threshold M
SelectStuffMut(algorithm, totalTokens, M) ==
    algorithm = "stuff" \/ (algorithm = "auto" /\ totalTokens <= M)

SelectStuff(algorithm, totalTokens, M) ==
    algorithm = "stuff" \/ (algorithm = "auto" /\ totalTokens < M)

\* ------------------------------------------------------------ JSON values
\* A parsed value: its type, whether it has any key of its own and, for an
\* object, which report fields it has (completed, inProgress and inReview are
\* those of its taskDetails).
JsonValue(type, present) ==
    [type |-> type, keys |-> IF type = "object" THEN "some" ELSE "none",
     summary |-> present, riskBlockerActionNeeded |-> present,
     completed |-> present, inProgress |-> present, inReview |-> present]

Undefined == JsonValue("undefined", "absent")
Null == JsonValue("null", "absent")
EmptyObject == [JsonValue("object", "absent") EXCEPT !.keys = "none"]

\* JsonOutputParser.parse: JSON.parse of the raw text, no shape validation.
\* Unparsable text throws; every well-formed JSON value is returned as is.
parseThrowsMut(raw) == FALSE

parseThrows(raw) == raw = "unparsable"

parse(raw) ==
    IF raw = "valid" THEN JsonValue("object", "text")
    ELSE IF raw = "otherShape" THEN JsonValue("object", "absent")
    ELSE IF raw = "emptyObject" THEN EmptyObject
    ELSE Null

\* JavaScript falsiness of a parsed value (!finalSummaryObject)
Falsy(v) == v.type \in {"undefined", "null"}

\* ------------------------------------------------------------------ state
VARIABLES
    pc,                 \* per request: where its async flow stands
    req,                \* per request: the inputs of the call
    llm,                \* per request: model instance built by createModelInstance
    totalTokens,        \* per request: orchestrator's token total
    svc,                \* MapReduceService instance fields (shared singleton)
    splitter,           \* per request: which text splitter produced the chunks
    contents,           \* OverallState.contents
    pendingMap,         \* generateSummary tasks of the map superstep still running
    mapPrompt,          \* per map task: the this.mapPrompt it read ("none": not yet)
    awaiting,           \* generateSummary tasks inside await this.llm.invoke(prompt)
    nodePrompt,         \* the this.reducePrompt / this.finalPrompt the running
                        \* collapseSummaries / generateFinalSummary node read
    mapWrites,          \* writes of finished map tasks, applied at the barrier
    summaries,          \* OverallState.summaries
    collapsedSummaries, \* OverallState.collapsedSummaries
    finalSummaryObject, \* local of summarize, set from the generateFinalSummary step
    steps,              \* supersteps the graph has run
    trace,              \* history: graph nodes in the order they completed
    calls,              \* history: model calls issued, by kind (map: by chunk)
    used,               \* history: (kind, llm, prompts) of every model call
    lastDecision,       \* history: the last shouldCollapse evaluation
    rawOutput,          \* history: raw text of the final (or stuff) model call
    result,             \* per request: what the summarizer returned
    response,           \* per request: structureResponse output
    published,          \* per request: generateDocument invocations
    documentUrl,        \* per request: what generateDocument returned
    stuffContext,       \* history: the documents of the stuff chain's prompt
    logged,             \* history: logger.error calls of the splitter fallback
    docLists,           \* history: input, groups, reduce calls and results of
                        \* the last collapse round
    err                 \* per request: the error the call failed with

orchVars == <<req, llm, totalTokens, result, response, published, documentUrl>>
graphVars == <<splitter, contents, pendingMap, mapPrompt, awaiting, nodePrompt,
               mapWrites, summaries, collapsedSummaries, finalSummaryObject,
               steps>>
histVars == <<trace, calls, used, lastDecision, rawOutput, stuffContext,
             logged, docLists>>
vars == <<pc, err, svc, orchVars, graphVars, histVars>>

\* projectName, from, to, projectStatus and docName as summarize hands them
\* to structureResponse
MetaFields == {"projectName", "from", "to", "projectStatus", "docName"}
NoMeta == [f \in MetaFields |-> "undefined"]
GivenMeta == [f \in MetaFields |-> f]
Metas == {[f \in MetaFields |-> IF f \in S THEN f ELSE "undefined"] :
            S \in SUBSET MetaFields}

NoReq == [caller |-> "none", provider |-> "none", model |-> "none",
          algorithm |-> "undefined", githubData |-> "disabled",
          docs |-> <<>>, chunks |-> 0, prompts |-> "langfuse", maxTokens |-> 0,
          chunkSize |-> 0, chunkOverlap |-> 0, encodingOk |-> TRUE,
          meta |-> NoMeta]
NoSplitter == [name |-> "none", chunkSize |-> 0, chunkOverlap |-> 0]
NoDocLists == [docs |-> <<>>, lists |-> <<>>, calls |-> 0, results |-> <<>>]
NoSvc == [llm |-> NoLlm, prompts |-> "none", maxTokens |-> 0]
NoCalls == [map |-> [c \in Chunk |-> 0], reduce |-> 0, final |-> 0, stuff |-> 0]
NoDecision == [count |-> 0, numTokens |-> 0, maxTokens |-> 0, next |-> "none"]
NoResponse == [built |-> FALSE, summary |-> "", riskBlockerActionNeeded |-> "",
               completed |-> "", inProgress |-> "", inReview |-> "",
               projectName |-> "undefined", from |-> "undefined",
               to |-> "undefined", projectStatus |-> "undefined",
               docName |-> "undefined"]

\* State after construction of the services, before any request
BlankState ==
    /\ svc = NoSvc
    /\ totalTokens = [i \in Inv |-> 0]
    /\ splitter = [i \in Inv |-> NoSplitter]
    /\ contents = [i \in Inv |-> <<>>]
    /\ pendingMap = [i \in Inv |-> {}]
    /\ mapPrompt = [i \in Inv |-> [c \in Chunk |-> "none"]]
    /\ awaiting = [i \in Inv |-> {}]
    /\ nodePrompt = [i \in Inv |-> "none"]
    /\ mapWrites = [i \in Inv |-> [c \in Chunk |-> NoContent]]
    /\ summaries = [i \in Inv |-> <<>>]
    /\ collapsedSummaries = [i \in Inv |-> <<>>]
    /\ finalSummaryObject = [i \in Inv |-> Undefined]
    /\ steps = [i \in Inv |-> 0]
    /\ trace = [i \in Inv |-> <<>>]
    /\ calls = [i \in Inv |-> NoCalls]
    /\ used = [i \in Inv |-> {}]
    /\ lastDecision = [i \in Inv |-> NoDecision]
    /\ rawOutput = [i \in Inv |-> "none"]
    /\ response = [i \in Inv |-> NoResponse]
    /\ published = [i \in Inv |-> 0]
    /\ documentUrl = [i \in Inv |-> "none"]
    /\ stuffContext = [i \in Inv |-> <<>>]
    /\ logged = [i \in Inv |-> 0]
    /\ docLists = [i \in Inv |-> NoDocLists]
    /\ err = [i \in Inv |-> "none"]

Blank ==
    /\ BlankState
    /\ result = [i \in Inv |-> Undefined]

\* One HTTP request to AiEngineService.summarize
RequestInit ==
    /\ Blank
    /\ pc = [i \in Inv |-> IF i = 1 THEN "request" ELSE "off"]
    /\ llm = [i \in Inv |-> NoLlm]
    /\ req = [i \in Inv |-> NoReq]

\* ------------------------------------------------------- AiEngineService
\* The DTO of a request and the data its sources return (docs, as token
\* counts: the github document, when githubData.enabled, then the slack
\* document).  chunkSize, chunkOverlap and maxTokens are what summarize
\* passes to MapReduceService.summarize in those positions.
Requests ==
    {r \in [caller : {"AiEngineService"}, provider : Providers, model : Models,
            algorithm : Algorithms,
            githubData : {"undefined", "disabled", "enabled"},
            docs : {<<t>> : t \in SlackTokens}
                   \cup {<<g, t>> : g \in GithubTokens, t \in SlackTokens},
            chunks : {0}, prompts : {"langfuse"},
            maxTokens : {ReduceTemplateClient},
            chunkSize : {PromptClient}, chunkOverlap : {MapTemplateClient},
            encodingOk : {TRUE}, meta : {GivenMeta}] :
        Len(r.docs) > 1 <=> r.githubData = "enabled"}

\* Where AiEngineService.summarize continues once the summarizer it chose
\* has returned: structureResponse, then generateDocument
AfterSummaryMut == "publish"

AfterSummary == "structure"

\* An exception thrown inside request i's flow: nothing catches it before
\* the caller of AiEngineService.summarize
Fail(i, e) ==
    /\ pc' = [pc EXCEPT ![i] = "failed"]
    /\ err' = [err EXCEPT ![i] = e]

\* Where the flow of a request continues after llm.invoke threw in a node:
\* no node and no caller has a try/catch around the model call
AfterModelFailureMut(node) == IF node = "stuff" THEN "structure" ELSE "failed"

AfterModelFailure(node) == "failed"

ModelFail(i, node) ==
    /\ pc' = [pc EXCEPT ![i] = AfterModelFailure(node)]
    /\ err' = [err EXCEPT ![i] = "ModelInvocationError"]

\* A request arrives
Receive(i) ==
    /\ pc[i] = "request"
    /\ \E r \in Requests : req' = [req EXCEPT ![i] = r]
    /\ pc' = [pc EXCEPT ![i] = "createModel"]
    /\ UNCHANGED <<err, svc, llm, totalTokens, result, response, published,
                   documentUrl, graphVars, histVars>>

\* A parameter with a default value: the default replaces an omitted argument
OrDefault(v, d) == IF v = "undefined" THEN d ELSE v

\* createModelInstance(provider = OPENAI, model = GPT_3_5_TURBO): rejects an
\* unsupported (provider, model) pair
CreateModelInstance(i) ==
    /\ pc[i] = "createModel"
    /\ LET provider == OrDefault(req[i].provider, "openai")
           model == OrDefault(req[i].model, "gpt-3.5-turbo")
       IN IF ~validateModel(provider, model)
          THEN /\ Fail(i, "BadRequestException")
               /\ UNCHANGED llm
          ELSE /\ llm' = [llm EXCEPT ![i] = <<provider, model>>]
               /\ pc' = [pc EXCEPT ![i] = "documents"]
               /\ UNCHANGED err
    /\ UNCHANGED <<svc, req, totalTokens, result, response, published,
                   documentUrl, graphVars, histVars>>

\* The standups are fetched and the docs array is built; githubData.enabled
\* throws a TypeError when the request has no githubData
BuildDocuments(i) ==
    /\ pc[i] = "documents"
    /\ IF req[i].githubData = "undefined"
       THEN Fail(i, "TypeError")
       ELSE /\ pc' = [pc EXCEPT ![i] = "count"]
            /\ UNCHANGED err
    /\ UNCHANGED <<svc, orchVars, graphVars, histVars>>

\* The orchestrator's token total: sum of llm.getNumTokens over the documents
CountTokens(i) ==
    /\ pc[i] = "count"
    /\ totalTokens' = [totalTokens EXCEPT ![i] = SumSeq(req[i].docs)]
    /\ pc' = [pc EXCEPT ![i] = "select"]
    /\ UNCHANGED <<err, svc, req, llm, result, response, published,
                   documentUrl, graphVars, histVars>>

\* The if at the head of the stuff branch
SelectAlgorithm(i) ==
    /\ pc[i] = "select"
    /\ pc' = [pc EXCEPT ![i] =
                IF SelectStuff(req[i].algorithm, totalTokens[i], MAX_TOKENS)
                THEN "stuff" ELSE "mapReduce"]
    /\ UNCHANGED <<err, svc, orchVars, graphVars, histVars>>

\* The context slot of the stuff chain's prompt: the documents' contents in
\* the order of the docs array
formatDocumentsMut(docs) == [k \in 1..Len(docs) |-> docs[Len(docs) + 1 - k]]

formatDocuments(docs) == docs

\* StuffService.summarize, up to await chain.invoke: the chain (prompt, llm,
\* JSON parser) is invoked once on the documents
StuffInvoke(i) ==
    /\ pc[i] = "stuff"
    /\ calls' = [calls EXCEPT ![i].stuff = @ + 1]
    /\ stuffContext' = [stuffContext EXCEPT ![i] = formatDocuments(req[i].docs)]
    /\ used' = [used EXCEPT ![i] = @ \cup
                  {[kind |-> "stuff", llm |-> llm[i], prompts |-> req[i].prompts]}]
    /\ pc' = [pc EXCEPT ![i] = "stuffResult"]
    /\ UNCHANGED <<err, svc, orchVars, graphVars, trace, lastDecision,
                   rawOutput, logged, docLists>>

\* StuffService.summarize, after await chain.invoke: the model call threw, the
\* chain's parser threw, or the chain returned the parsed output
StuffSummarize(i) ==
    /\ pc[i] = "stuffResult"
    /\ \/ /\ ModelFail(i, "stuff")
          /\ UNCHANGED <<result, rawOutput>>
       \/ \E raw \in RawOutputs :
            /\ rawOutput' = [rawOutput EXCEPT ![i] = raw]
            /\ IF parseThrows(raw)
               THEN /\ Fail(i, "SyntaxError")
                    /\ UNCHANGED result
               ELSE /\ result' = [result EXCEPT ![i] = parse(raw)]
                    /\ pc' = [pc EXCEPT ![i] = AfterSummary]
                    /\ UNCHANGED err
    /\ UNCHANGED <<svc, req, llm, totalTokens, response, published,
                   documentUrl, graphVars, trace, calls, used, lastDecision,
                   stuffContext, logged, docLists>>

\* response?.field ?? '': the field's value, '' when the response or the
\* field is null or undefined
FieldMut(v, f) == IF v.type = "object" THEN v[f] ELSE ""

Field(v, f) == IF v.type = "object" /\ v[f] \notin {"absent", "null"} THEN v[f] ELSE ""

structureResponse(v, projectName, from, to, projectStatus, docName) ==
    [built |-> TRUE,
     projectName |-> projectName, from |-> from, to |-> to,
     projectStatus |-> projectStatus, docName |-> docName,
     summary |-> Field(v, "summary"),
     riskBlockerActionNeeded |-> Field(v, "riskBlockerActionNeeded"),
     completed |-> Field(v, "completed"),
     inProgress |-> Field(v, "inProgress"),
     inReview |-> Field(v, "inReview")]

StructureResponse(i) ==
    /\ pc[i] = "structure"
    /\ response' = [response EXCEPT ![i] =
                      structureResponse(result[i], req[i].meta.projectName,
                                        req[i].meta.from, req[i].meta.to,
                                        req[i].meta.projectStatus,
                                        req[i].meta.docName)]
    /\ pc' = [pc EXCEPT ![i] = "publish"]
    /\ UNCHANGED <<err, svc, req, llm, totalTokens, result, published,
                   documentUrl, graphVars, histVars>>

\* Where summarize continues after generateDocument threw: the await is
\* not inside a try, in either branch
AfterPublishFailureMut == "returned"

AfterPublishFailure == "failed"

\* summarize calls googleDocService.generateDocument with the structured
\* response and awaits it
GenerateDocumentInvoke(i) ==
    /\ pc[i] = "publish"
    /\ published' = [published EXCEPT ![i] = @ + 1]
    /\ pc' = [pc EXCEPT ![i] = "publishing"]
    /\ UNCHANGED <<err, svc, req, llm, totalTokens, result, response,
                   documentUrl, graphVars, histVars>>

\* googleDocService.generateDocument returns { documentUrl } or throws; the
\* response of summarize is the structured response spread with it
GenerateDocument(i) ==
    /\ pc[i] = "publishing"
    /\ \/ /\ documentUrl' = [documentUrl EXCEPT ![i] = "url"]
          /\ pc' = [pc EXCEPT ![i] = "returned"]
          /\ UNCHANGED err
       \/ /\ pc' = [pc EXCEPT ![i] = AfterPublishFailure]
          /\ err' = [err EXCEPT ![i] = "InternalServerErrorException"]
          /\ UNCHANGED documentUrl
    /\ UNCHANGED <<svc, req, llm, totalTokens, result, response, published,
                   graphVars, histVars>>

\* ------------------------------------------------------ MapReduceService
\* The comparison `numTokens > tokenMax` inside splitListOfDocs, which is
\* synchronous.  collapseSummaries hands it (docs) => this.lengthFunction(docs),
\* an async function, so numTokens is a pending Promise whatever the documents
\* are.  Against a number the Promise converts to NaN and the comparison is
\* false; against an object both sides convert to strings and
\* "[object Promise]" > "[object Object]" is true.
LengthExceedsAwaited(docs, tokenMax) == lengthFunction(docs) > tokenMax

LengthExceeds(docs, tokenMax) == IsObject(tokenMax)

\* splitListOfDocs(docs, lengthFunc, tokenMax): prefix-greedy packing.
\* ok = FALSE is its "A single document was longer than the context length".
RECURSIVE SplitFrom(_, _, _, _, _)
SplitFrom(docs, k, sub, acc, tokenMax) ==
    IF k > Len(docs) THEN [ok |-> TRUE, lists |-> Append(acc, sub)]
    ELSE LET sub2 == Append(sub, docs[k]) IN
         IF LengthExceeds(sub2, tokenMax)
         THEN IF Len(sub2) = 1
              THEN [ok |-> FALSE, lists |-> <<>>]
              ELSE SplitFrom(docs, k + 1, <<docs[k]>>, Append(acc, sub), tokenMax)
         ELSE SplitFrom(docs, k + 1, sub2, acc, tokenMax)

splitListOfDocs(docs, tokenMax) == SplitFrom(docs, 1, <<>>, <<>>, tokenMax)

\* collectSummaries: one Document per summary, in order
collectSummariesMut(ss) == [k \in 1..Len(ss) |-> Document(ss[Len(ss) + 1 - k])]

collectSummaries(ss) == [k \in 1..Len(ss) |-> Document(ss[k])]

\* shouldCollapse: the conditional edge after collectSummaries/collapseSummaries
shouldCollapseMut(docs, maxTokens) ==
    IF GreaterOrEqual(lengthFunction(docs), maxTokens)
    THEN "collapseSummaries" ELSE "generateFinalSummary"

shouldCollapse(docs, maxTokens) ==
    IF Greater(lengthFunction(docs), maxTokens)
    THEN "collapseSummaries" ELSE "generateFinalSummary"

DecideMut(i, docs) ==
    [count |-> lastDecision[i].count + 1,
     numTokens |-> lengthFunction(collectSummaries(summaries[i])),
     maxTokens |-> svc.maxTokens,
     next |-> shouldCollapse(collectSummaries(summaries[i]), svc.maxTokens)]

Decide(i, docs) ==
    [count |-> lastDecision[i].count + 1,
     numTokens |-> lengthFunction(docs),
     maxTokens |-> svc.maxTokens,
     next |-> shouldCollapse(docs, svc.maxTokens)]

\* A model call of a node: this.llm as it is when the node reaches
\* this.llm.invoke, on the prompt the node built before its first await
Use(kind, prompt) == [kind |-> kind, llm |-> svc.llm, prompts |-> prompt]

\* summarize, up to the first await: initialize() writes the instance fields
Initialize(i) ==
    /\ pc[i] = "mapReduce"
    /\ svc' = [llm |-> llm[i], prompts |-> req[i].prompts,
               maxTokens |-> req[i].maxTokens]
    /\ pc' = [pc EXCEPT ![i] = "split"]
    /\ UNCHANGED <<err, orchVars, graphVars, histVars>>

\* The constructor shared by both splitters (TextSplitter) throws
\* "Cannot have chunkOverlap >= chunkSize"
SplitterRejects(chunkSize, chunkOverlap) == GreaterOrEqual(chunkOverlap, chunkSize)

\* The arguments of new RecursiveCharacterTextSplitter in the catch block
FallbackArgsMut(chunkSize, chunkOverlap) ==
    [chunkSize |-> DefaultChunkSize, chunkOverlap |-> DefaultChunkOverlap]

FallbackArgs(chunkSize, chunkOverlap) ==
    [chunkSize |-> chunkSize, chunkOverlap |-> chunkOverlap]

\* The catch block up to its await: logger.error, then the constructor of
\* RecursiveCharacterTextSplitter, whose exception nothing catches
CatchSplitterError(i, size, overlap) ==
    LET args == FallbackArgs(size, overlap)
    IN /\ logged' = [logged EXCEPT ![i] = @ + 1]
       /\ splitter' = [splitter EXCEPT ![i] =
                         [name |-> "RecursiveCharacterTextSplitter",
                          chunkSize |-> args.chunkSize,
                          chunkOverlap |-> args.chunkOverlap]]
       /\ IF SplitterRejects(args.chunkSize, args.chunkOverlap)
          THEN Fail(i, "SplitterError")
          ELSE /\ pc' = [pc EXCEPT ![i] = "fallbackSplit"]
               /\ UNCHANGED err

\* The chunks are there: the graph is built and streamed, and mapSummaries
\* sends one task per chunk
StreamGraph(i) ==
    /\ contents' = [contents EXCEPT ![i] = [k \in 1..req[i].chunks |-> k]]
    /\ pendingMap' = [pendingMap EXCEPT ![i] = 1..req[i].chunks]
    /\ pc' = [pc EXCEPT ![i] = IF req[i].chunks = 0 THEN "streamEnd"
                                ELSE "generateSummary"]

\* The try block up to await textSplitter.splitDocuments: the constructor of
\* TokenTextSplitter, which throws into the catch block when it rejects the
\* arguments
SplitDocuments(i) ==
    /\ pc[i] = "split"
    /\ IF SplitterRejects(req[i].chunkSize, req[i].chunkOverlap)
       THEN CatchSplitterError(i, req[i].chunkSize, req[i].chunkOverlap)
       ELSE /\ splitter' = [splitter EXCEPT ![i] =
                              [name |-> "TokenTextSplitter",
                               chunkSize |-> req[i].chunkSize,
                               chunkOverlap |-> req[i].chunkOverlap]]
            /\ pc' = [pc EXCEPT ![i] = "tokenSplit"]
            /\ UNCHANGED <<err, logged>>
    /\ UNCHANGED <<svc, orchVars, contents, pendingMap, mapPrompt, awaiting,
                   nodePrompt, mapWrites, summaries, collapsedSummaries,
                   finalSummaryObject, steps, trace, calls, used, lastDecision,
                   rawOutput, stuffContext, docLists>>

\* After await textSplitter.splitDocuments of the TokenTextSplitter: it
\* returned the chunks, or it threw because its encoding cannot be loaded
\* (encodingOk of the call is FALSE) and the catch block runs
TokenSplitDocuments(i) ==
    /\ pc[i] = "tokenSplit"
    /\ IF ~req[i].encodingOk
       THEN /\ CatchSplitterError(i, req[i].chunkSize, req[i].chunkOverlap)
            /\ UNCHANGED <<contents, pendingMap>>
       ELSE /\ StreamGraph(i)
            /\ UNCHANGED <<err, logged, splitter>>
    /\ UNCHANGED <<svc, orchVars, mapPrompt, awaiting, nodePrompt, mapWrites,
                   summaries, collapsedSummaries, finalSummaryObject, steps,
                   trace, calls, used, lastDecision, rawOutput, stuffContext,
                   docLists>>

\* After await textSplitter.splitDocuments of the RecursiveCharacterTextSplitter
FallbackSplitDocuments(i) ==
    /\ pc[i] = "fallbackSplit"
    /\ StreamGraph(i)
    /\ UNCHANGED <<err, svc, orchVars, splitter, mapPrompt, awaiting,
                   nodePrompt, mapWrites, summaries, collapsedSummaries,
                   finalSummaryObject, steps, histVars>>

\* The summaries channel after the map superstep: the reducer
\* state.concat(update) applied to the tasks' writes in task order
ApplyWritesMut(old, cs, writes) == <<writes[cs[Len(cs)]]>>

ApplyWrites(old, cs, writes) == old \o [k \in 1..Len(cs) |-> writes[cs[k]]]

\* The edge generateSummary -> collectSummaries is taken when every task of
\* the map superstep has finished
BarrierReachedMut(rest) == TRUE

BarrierReached(rest) == rest = {}

\* A superstep runs only while fewer than recursionLimit have run
StepAllowedMut(n) == n < RecursionLimit + 1

StepAllowed(n) == n < RecursionLimit

\* The tasks of the map superstep still running once the task of chunk c
\* has returned or thrown: a finished task is not run again
CompleteTaskMut(pending, c) == pending

CompleteTask(pending, c) == pending \ {c}

\* The task of chunk c is running: the map superstep is under way, or it has
\* failed on another task and this one's promise is still pending (nothing
\* in generateSummary looks at the failure of a sibling)
TaskRuns(i, c) ==
    /\ c \in pendingMap[i]
    /\ pc[i] \in {"generateSummary", "failed"}

\* generateSummary for one chunk, up to its first await: the task reads
\* this.mapPrompt and builds its prompt
GenerateSummaryPrompt(i, c) ==
    /\ TaskRuns(i, c)
    /\ mapPrompt[i][c] = "none"
    /\ mapPrompt' = [mapPrompt EXCEPT ![i][c] = svc.prompts]
    /\ UNCHANGED <<pc, err, svc, orchVars, splitter, contents, pendingMap,
                   awaiting, nodePrompt, mapWrites, summaries,
                   collapsedSummaries, finalSummaryObject, steps, histVars>>

\* generateSummary for one chunk, from the prompt to await this.llm.invoke:
\* the model call is issued
GenerateSummaryInvoke(i, c) ==
    /\ TaskRuns(i, c)
    /\ mapPrompt[i][c] # "none"
    /\ c \notin awaiting[i]
    /\ calls' = [calls EXCEPT ![i].map[c] = @ + 1]
    /\ used' = [used EXCEPT ![i] = @ \cup {Use("map", mapPrompt[i][c])}]
    /\ awaiting' = [awaiting EXCEPT ![i] = @ \cup {c}]
    /\ UNCHANGED <<pc, err, svc, orchVars, splitter, contents, pendingMap,
                   mapPrompt, nodePrompt, mapWrites, summaries,
                   collapsedSummaries, finalSummaryObject, steps, trace,
                   lastDecision, rawOutput, stuffContext, logged, docLists>>

\* generateSummary for one chunk, after await this.llm.invoke: the call throws
\* and the run fails, or it returns and the task returns its summary.  The
\* last task to return closes the superstep; what a task returns after the run
\* has failed goes nowhere.
GenerateSummary(i, c) ==
    /\ TaskRuns(i, c)
    /\ c \in awaiting[i]
    /\ awaiting' = [awaiting EXCEPT ![i] = @ \ {c}]
    /\ LET rest == CompleteTask(pendingMap[i], c)
       IN /\ pendingMap' = [pendingMap EXCEPT ![i] = rest]
          /\ \/ /\ ModelFail(i, "generateSummary")
                /\ UNCHANGED <<mapWrites, summaries, steps, trace>>
             \/ \E s \in Sizes :
                  LET w == [mapWrites[i] EXCEPT
                              ![c] = [chunks |-> {c}, tok |-> s, gen |-> 0]]
                  IN /\ trace' = [trace EXCEPT ![i] = Append(@, "generateSummary")]
                     /\ IF pc[i] = "failed"
                        THEN UNCHANGED <<mapWrites, summaries, steps, pc>>
                        ELSE /\ mapWrites' = [mapWrites EXCEPT ![i] = w]
                             /\ IF BarrierReached(rest)
                                THEN /\ summaries' = [summaries EXCEPT ![i] =
                                                        ApplyWrites(@, contents[i], w)]
                                     /\ steps' = [steps EXCEPT ![i] = @ + 1]
                                     /\ pc' = [pc EXCEPT ![i] = "collectSummaries"]
                                ELSE UNCHANGED <<summaries, steps, pc>>
                     /\ UNCHANGED err
    /\ UNCHANGED <<svc, orchVars, splitter, contents, mapPrompt, nodePrompt,
                   collapsedSummaries, finalSummaryObject, calls, used,
                   lastDecision, rawOutput, stuffContext, logged, docLists>>

\* The collectSummaries node
CollectSummaries(i) ==
    /\ pc[i] = "collectSummaries"
    /\ StepAllowed(steps[i])
    /\ collapsedSummaries' = [collapsedSummaries EXCEPT ![i] =
                                collectSummaries(summaries[i])]
    /\ steps' = [steps EXCEPT ![i] = @ + 1]
    /\ trace' = [trace EXCEPT ![i] = Append(@, "collectSummaries")]
    /\ pc' = [pc EXCEPT ![i] = "shouldCollapse"]
    /\ UNCHANGED <<err, svc, orchVars, splitter, contents, pendingMap, mapPrompt,
                   awaiting, nodePrompt, mapWrites, summaries,
                   finalSummaryObject, calls, used, lastDecision, rawOutput,
                   stuffContext, logged, docLists>>

\* The conditional edge out of collectSummaries and collapseSummaries, run on
\* the collapsed set the node wrote, with this.maxTokens as it is by then
ShouldCollapse(i) ==
    /\ pc[i] = "shouldCollapse"
    /\ LET d == Decide(i, collapsedSummaries[i])
       IN /\ lastDecision' = [lastDecision EXCEPT ![i] = d]
          /\ pc' = [pc EXCEPT ![i] = d.next]
    /\ UNCHANGED <<err, svc, orchVars, graphVars, trace, calls, used, rawOutput,
                   stuffContext, logged, docLists>>

RECURSIVE UnionChunks(_)
UnionChunks(docs) ==
    IF docs = <<>> THEN {}
    ELSE Head(docs).pageContent.chunks \cup UnionChunks(Tail(docs))

\* collapseDocs(docList, _reduce): one reduce call whatever the group's size
collapseDocs(docList, tok, gen) ==
    Document([chunks |-> UnionChunks(docList), tok |-> tok, gen |-> gen])

\* The new collapsedSummaries a round returns from its per-group results
collapseResultMut(old, results) == old \o results

collapseResult(old, results) == results

\* collapseSummaries, up to the first await: splitListOfDocs with
\* this.maxTokens, then _reduce of the first group reads this.reducePrompt
CollapseSummaries(i) ==
    /\ pc[i] = "collapseSummaries"
    /\ StepAllowed(steps[i])
    /\ LET split == splitListOfDocs(collapsedSummaries[i], svc.maxTokens)
       IN IF ~split.ok
          THEN /\ Fail(i, "SingleDocumentTooLong")
               /\ UNCHANGED <<nodePrompt, docLists>>
          ELSE /\ docLists' = [docLists EXCEPT ![i] =
                                 [docs |-> collapsedSummaries[i],
                                  lists |-> split.lists,
                                  calls |-> 0, results |-> <<>>]]
               /\ nodePrompt' = [nodePrompt EXCEPT ![i] = svc.prompts]
               /\ pc' = [pc EXCEPT ![i] = "reduce"]
               /\ UNCHANGED err
    /\ UNCHANGED <<svc, orchVars, splitter, contents, pendingMap, mapPrompt,
                   awaiting, mapWrites, summaries, collapsedSummaries,
                   finalSummaryObject, steps, trace, calls, used, lastDecision,
                   rawOutput, stuffContext, logged>>

\* _reduce of the next group, from the prompt to await this.llm.invoke: the
\* model call is issued
ReduceInvoke(i) ==
    /\ pc[i] = "reduce"
    /\ calls' = [calls EXCEPT ![i].reduce = @ + 1]
    /\ used' = [used EXCEPT ![i] = @ \cup {Use("reduce", nodePrompt[i])}]
    /\ docLists' = [docLists EXCEPT ![i].calls = @ + 1]
    /\ pc' = [pc EXCEPT ![i] = "reduceResult"]
    /\ UNCHANGED <<err, svc, orchVars, graphVars, trace, lastDecision,
                   rawOutput, stuffContext, logged>>

\* _reduce of the next group, after await this.llm.invoke.  After the last
\* group the node returns its results; before that the loop goes on to the
\* next group, whose _reduce reads this.reducePrompt.
Reduce(i) ==
    /\ pc[i] = "reduceResult"
    /\ LET lists == docLists[i].lists
           g == Len(docLists[i].results) + 1
       IN \/ /\ ModelFail(i, "collapseSummaries")
             /\ UNCHANGED <<nodePrompt, collapsedSummaries, steps, trace,
                            docLists>>
          \/ \E s \in Sizes :
               LET results == Append(docLists[i].results,
                                     collapseDocs(lists[g], s, steps[i]))
               IN /\ docLists' = [docLists EXCEPT ![i].results = results]
                  /\ IF g = Len(lists)
                     THEN /\ collapsedSummaries' =
                               [collapsedSummaries EXCEPT ![i] =
                                  collapseResult(@, results)]
                          /\ steps' = [steps EXCEPT ![i] = @ + 1]
                          /\ trace' = [trace EXCEPT ![i] =
                                         Append(@, "collapseSummaries")]
                          /\ pc' = [pc EXCEPT ![i] = "shouldCollapse"]
                          /\ UNCHANGED nodePrompt
                     ELSE /\ nodePrompt' = [nodePrompt EXCEPT ![i] = svc.prompts]
                          /\ pc' = [pc EXCEPT ![i] = "reduce"]
                          /\ UNCHANGED <<collapsedSummaries, steps, trace>>
                  /\ UNCHANGED err
    /\ UNCHANGED <<svc, orchVars, splitter, contents, pendingMap, mapPrompt,
                   awaiting, mapWrites, summaries, finalSummaryObject, calls,
                   used, lastDecision, rawOutput, stuffContext, logged>>

\* generateFinalSummary, up to its first await: the node reads
\* this.finalPrompt and builds its prompt
GenerateFinalSummaryPrompt(i) ==
    /\ pc[i] = "generateFinalSummary"
    /\ StepAllowed(steps[i])
    /\ nodePrompt' = [nodePrompt EXCEPT ![i] = svc.prompts]
    /\ pc' = [pc EXCEPT ![i] = "final"]
    /\ UNCHANGED <<err, svc, orchVars, splitter, contents, pendingMap, mapPrompt,
                   awaiting, mapWrites, summaries, collapsedSummaries,
                   finalSummaryObject, steps, histVars>>

\* generateFinalSummary, from the prompt to await this.llm.invoke: the final
\* model call is issued
GenerateFinalSummaryInvoke(i) ==
    /\ pc[i] = "final"
    /\ calls' = [calls EXCEPT ![i].final = @ + 1]
    /\ used' = [used EXCEPT ![i] = @ \cup {Use("final", nodePrompt[i])}]
    /\ pc' = [pc EXCEPT ![i] = "finalResult"]
    /\ UNCHANGED <<err, svc, orchVars, graphVars, trace, lastDecision,
                   rawOutput, stuffContext, logged, docLists>>

\* generateFinalSummary, after await this.llm.invoke: the call throws, or it
\* returns its text, which the node hands to jsonOutputParser.parse
GenerateFinalSummary(i) ==
    /\ pc[i] = "finalResult"
    /\ \/ /\ ModelFail(i, "generateFinalSummary")
          /\ UNCHANGED rawOutput
       \/ \E raw \in RawOutputs :
            /\ rawOutput' = [rawOutput EXCEPT ![i] = raw]
            /\ pc' = [pc EXCEPT ![i] = "parse"]
            /\ UNCHANGED err
    /\ UNCHANGED <<svc, orchVars, graphVars, trace, calls, used, lastDecision,
                   stuffContext, logged, docLists>>

\* generateFinalSummary, after await this.jsonOutputParser.parse: the parser
\* threw, or the node returns the parsed value and the stream loop of
\* summarize stores the step's finalSummaryObject
ParseFinalSummary(i) ==
    /\ pc[i] = "parse"
    /\ IF parseThrows(rawOutput[i])
       THEN /\ Fail(i, "SyntaxError")
            /\ UNCHANGED <<finalSummaryObject, steps, trace>>
       ELSE /\ finalSummaryObject' =
                 [finalSummaryObject EXCEPT ![i] = parse(rawOutput[i])]
            /\ steps' = [steps EXCEPT ![i] = @ + 1]
            /\ trace' = [trace EXCEPT ![i] = Append(@, "generateFinalSummary")]
            /\ pc' = [pc EXCEPT ![i] = "streamEnd"]
            /\ UNCHANGED err
    /\ UNCHANGED <<svc, orchVars, splitter, contents, pendingMap, mapPrompt,
                   awaiting, nodePrompt, mapWrites, summaries,
                   collapsedSummaries, calls, used, lastDecision, rawOutput,
                   stuffContext, logged, docLists>>

\* The graph still has a node to run after recursionLimit supersteps
RecursionLimitExceeded(i) ==
    /\ pc[i] \in {"collectSummaries", "collapseSummaries", "generateFinalSummary"}
    /\ ~StepAllowed(steps[i])
    /\ Fail(i, "GraphRecursionError")
    /\ UNCHANGED <<svc, orchVars, graphVars, histVars>>

\* Where the value summarize returns goes: into AiEngineService.summarize,
\* which continues after its await, or to another caller
ReturnTo(caller) == IF caller = "AiEngineService" THEN AfterSummary ELSE "resolved"

\* After the stream: if (!finalSummaryObject) throw, else return it
StreamEnd(i) ==
    /\ pc[i] = "streamEnd"
    /\ IF Falsy(finalSummaryObject[i])
       THEN /\ Fail(i, "Failed to generate final summary")
            /\ UNCHANGED result
       ELSE /\ result' = [result EXCEPT ![i] = finalSummaryObject[i]]
            /\ pc' = [pc EXCEPT ![i] = ReturnTo(req[i].caller)]
            /\ UNCHANGED err
    /\ UNCHANGED <<svc, req, llm, totalTokens, response, published,
                   documentUrl, graphVars, histVars>>

\* ---------------------------------------------------------- specifications
MapReduceNext(i) ==
    \/ Initialize(i)
    \/ SplitDocuments(i)
    \/ TokenSplitDocuments(i)
    \/ FallbackSplitDocuments(i)
    \/ \E c \in Chunk : GenerateSummaryPrompt(i, c)
    \/ \E c \in Chunk : GenerateSummaryInvoke(i, c)
    \/ \E c \in Chunk : GenerateSummary(i, c)
    \/ CollectSummaries(i)
    \/ ShouldCollapse(i)
    \/ CollapseSummaries(i)
    \/ ReduceInvoke(i)
    \/ Reduce(i)
    \/ GenerateFinalSummaryPrompt(i)
    \/ GenerateFinalSummaryInvoke(i)
    \/ GenerateFinalSummary(i)
    \/ ParseFinalSummary(i)
    \/ RecursionLimitExceeded(i)
    \/ StreamEnd(i)

Next ==
    \E i \in Inv :
        \/ Receive(i)
        \/ CreateModelInstance(i)
        \/ BuildDocuments(i)
        \/ CountTokens(i)
        \/ SelectAlgorithm(i)
        \/ StuffInvoke(i)
        \/ StuffSummarize(i)
        \/ MapReduceNext(i)
        \/ StructureResponse(i)
        \/ GenerateDocumentInvoke(i)
        \/ GenerateDocument(i)

\* MapReduceService.summarize called with numbers for chunkSize, chunkOverlap
\* and maxTokens, by a caller other than AiEngineService
DirectCalls(l, p, thresholds, sizes, overlaps, encodings) ==
    [caller : {"direct"}, provider : {l[1]}, model : {l[2]},
     algorithm : {"map-reduce"}, githubData : {"disabled"},
     docs : {<<>>}, chunks : 0..MaxChunks, prompts : {p}, maxTokens : thresholds,
     chunkSize : sizes, chunkOverlap : overlaps, encodingOk : encodings,
     meta : {NoMeta}]

ServiceInit ==
    /\ Blank
    /\ pc = [i \in Inv |-> IF i = 1 THEN "mapReduce" ELSE "off"]
    /\ llm = [i \in Inv |-> IF i = 1 THEN <<"openai", "gpt-4o-mini">> ELSE NoLlm]
    /\ \E r \in DirectCalls(<<"openai", "gpt-4o-mini">>, "langfuse", Thresholds,
                           ChunkSizes, ChunkOverlaps, BOOLEAN) :
         req = [i \in Inv |-> IF i = 1 THEN r ELSE NoReq]

\* One call: a request to AiEngineService.summarize, or a call of
\* MapReduceService.summarize with numbers
Init == RequestInit \/ ServiceInit

Spec == Init /\ [][Next]_vars

ServiceNext == \E i \in Inv : MapReduceNext(i)

\* Every pending continuation of the event loop is eventually run, and every
\* model call eventually returns or throws
ServiceSpec == ServiceInit /\ [][ServiceNext]_vars /\ WF_vars(ServiceNext)

\* Two calls of summarize on the one MapReduceService instance, with
\* different models, prompts and thresholds, interleaved at their awaits; the
\* encoding of the first call's token splitter loads or does not
ConcurrentInit ==
    /\ Blank
    /\ pc = [i \in Inv |-> "mapReduce"]
    /\ llm = [i \in Inv |-> IF i = 1 THEN <<"openai", "gpt-4o-mini">>
                                     ELSE <<"google", "gemini-2.0-flash">>]
    /\ \E r1 \in DirectCalls(<<"openai", "gpt-4o-mini">>, "langfuse",
                            {0, MaxThreshold - 1}, {DefaultChunkSize},
                            {DefaultChunkOverlap}, BOOLEAN),
          r2 \in DirectCalls(<<"google", "gemini-2.0-flash">>, "custom",
                            {MaxThreshold}, {DefaultChunkSize},
                            {DefaultChunkOverlap}, {TRUE}) :
         /\ r1.chunks = 1
         /\ r2.chunks = 1
         /\ req = [i \in Inv |-> IF i = 1 THEN r1 ELSE r2]

ConcurrentSpec == ConcurrentInit /\ [][ServiceNext]_vars

\* structureResponse applied to any value a summarizer may hand back and any
\* caller-supplied metadata
ReportFields ==
    {"summary", "riskBlockerActionNeeded", "completed", "inProgress", "inReview"}

SummarizerResults ==
    {Undefined, Null, EmptyObject}
        \cup {[f \in ReportFields \cup {"type", "keys"} |->
                 IF f = "type" THEN "object"
                 ELSE IF f = "keys" THEN "some" ELSE present[f]] :
               present \in [ReportFields -> {"absent", "null", "text"}]}

StructureInit ==
    /\ BlankState
    /\ pc = [i \in Inv |-> IF i = 1 THEN "structure" ELSE "off"]
    /\ llm = [i \in Inv |-> NoLlm]
    /\ \E v \in SummarizerResults, m \in Metas :
         /\ result = [i \in Inv |-> IF i = 1 THEN v ELSE Undefined]
         /\ req = [i \in Inv |-> IF i = 1 THEN [NoReq EXCEPT !.meta = m] ELSE NoReq]

StructureNext == \E i \in Inv : StructureResponse(i)

StructureSpec == StructureInit /\ [][StructureNext]_vars

\* =================================================================== claims
Count(t, name) == Cardinality({k \in 1..Len(t) : t[k] = name})

MapCalls(i) == SumSeq([c \in 1..MaxChunks |-> calls[i].map[c]])

TotalCalls(i) == MapCalls(i) + calls[i].reduce + calls[i].final + calls[i].stuff

\* The request went down the map-reduce branch and summarize returned
MapReduceRan(i) == splitter[i].name # "none"
MapReduceReturned(i) ==
    /\ MapReduceRan(i)
    /\ pc[i] \in {"structure", "publish", "publishing", "returned", "resolved"}

SummariesTokens(i) == lengthFunction(collectSummaries(summaries[i]))

\* shouldCollapse has been evaluated on the current collapsed set
Decided(i) == lastDecision[i].count > 0 /\ pc[i] # "shouldCollapse"

\* The last collapse round has pushed a result for every group
RoundCompleted(i) ==
    /\ docLists[i].lists # <<>>
    /\ Len(docLists[i].results) = Len(docLists[i].lists)

\* C1: algorithm selection.  Once the orchestrator has branched, mode auto has
\* chosen Stuff exactly when the token total is below MAX_TOKENS (a total
\* equal to it goes to Map-Reduce), mode stuff has chosen Stuff and mode
\* map-reduce has chosen Map-Reduce, whatever the total.
C1_AlgorithmSelection ==
    \A i \in Inv :
        pc[i] \in {"stuff", "mapReduce"} =>
            /\ req[i].algorithm = "auto" =>
                 (pc[i] = "stuff" <=> totalTokens[i] < MAX_TOKENS)
            /\ req[i].algorithm = "stuff" => pc[i] = "stuff"
            /\ req[i].algorithm = "map-reduce" => pc[i] = "mapReduce"

C1_Witness ==
    /\ pc[1] = "mapReduce"
    /\ req[1].algorithm = "auto"
    /\ totalTokens[1] = MAX_TOKENS

\* C2: order of the graph's states.  The nodes of a map-reduce run complete in
\* the order generateSummary (one per chunk), collectSummaries, any number of
\* collapseSummaries, generateFinalSummary; nothing completes after
\* generateFinalSummary; a run that returned ran collectSummaries exactly once
\* and generateFinalSummary exactly once.
C2_StateOrder ==
    \A i \in Inv :
        LET t == trace[i]
            n == Len(contents[i])
        IN /\ \A k \in 1..Len(t) :
                /\ k <= n => t[k] = "generateSummary"
                /\ k = n + 1 => t[k] = "collectSummaries"
                /\ k > n + 1 => t[k] \in {"collapseSummaries", "generateFinalSummary"}
                /\ t[k] = "generateFinalSummary" => k = Len(t)
           /\ MapReduceReturned(i) =>
                /\ Count(t, "generateSummary") = n
                /\ Count(t, "collectSummaries") = 1
                /\ Count(t, "generateFinalSummary") = 1
                /\ t[Len(t)] = "generateFinalSummary"

C2_Witness ==
    /\ MapReduceReturned(1)
    /\ Len(contents[1]) >= 2
    /\ Count(trace[1], "collapseSummaries") >= 2

\* C3 as stated: collapse termination.  When the threshold is at least the
\* token count of the largest summary, the collapse loop ends by itself: the
\* graph does not run into its recursion limit, and when shouldCollapse has
\* sent the run on to generateFinalSummary the collapsed set is within the
\* threshold or is exactly one document that is over it.
LargestSummary(i) ==
    IF summaries[i] = <<>> THEN 0
    ELSE CHOOSE m \in {summaries[i][k].tok : k \in 1..Len(summaries[i])} :
            \A k \in 1..Len(summaries[i]) : summaries[i][k].tok <= m

C3_CollapseTermination ==
    \A i \in Inv :
        steps[i] >= 1 /\ req[i].maxTokens >= LargestSummary(i) =>
            /\ err[i] # "GraphRecursionError"
            /\ Decided(i) /\ lastDecision[i].next = "generateFinalSummary" =>
                 \/ lengthFunction(collapsedSummaries[i]) <= req[i].maxTokens
                 \/ /\ Len(collapsedSummaries[i]) = 1
                    /\ lengthFunction(collapsedSummaries[i]) > req[i].maxTokens

\* C4: every call of MapReduceService.summarize terminates.  It eventually
\* has returned or thrown; the graph never runs more than RecursionLimit
\* supersteps, and a call that hit the limit threw GraphRecursionError and
\* returns no result, then or later.
Terminated(i) == pc[i] \in {"off", "resolved", "failed"}

C4_Safe ==
    \A i \in Inv :
        /\ steps[i] <= RecursionLimit
        /\ err[i] = "GraphRecursionError" =>
             pc[i] = "failed" /\ result[i] = Undefined
        /\ steps[i] = RecursionLimit /\ Terminated(i) /\ pc[i] # "failed" =>
             trace[i][Len(trace[i])] = "generateFinalSummary"

C4_Terminates == []C4_Safe /\ <>(\A i \in Inv : Terminated(i))

C4_Witness ==
    /\ err[1] = "GraphRecursionError"
    /\ req[1].maxTokens = 0
    /\ Count(trace[1], "collapseSummaries") = RecursionLimit - 2

\* C5: no partial success.  Once a model call of a request has thrown (a map,
\* reduce, final or stuff call), the request has failed: the summarizer
\* returned nothing, no response was built and the document publisher was not
\* invoked.
C5_NoPartialSuccess ==
    \A i \in Inv :
        err[i] = "ModelInvocationError" =>
            /\ pc[i] = "failed"
            /\ result[i] = Undefined
            /\ ~response[i].built
            /\ published[i] = 0

C5_Witness ==
    /\ err[1] = "ModelInvocationError"
    /\ Len(summaries[1]) >= 2
    /\ calls[1].reduce >= 1
    /\ calls[1].final = 1

\* C6 as stated: a run whose final output cannot be parsed has failed with
\* 'Failed to generate final summary'.
C6_Original ==
    \A i \in Inv :
        MapReduceRan(i) /\ rawOutput[i] = "unparsable" /\ pc[i] = "failed" =>
            err[i] = "Failed to generate final summary"

\* C6, amended: when the final model call has returned text that cannot be
\* parsed, no structured object exists for the run, then or later, and as
\* soon as jsonOutputParser.parse has settled the run has failed with the
\* parser's exception thrown inside generateFinalSummary, which is neither the
\* error of a failed model invocation nor 'Failed to generate final summary'.
\* 'Failed to generate final summary' is thrown only when the stream ended
\* without a truthy finalSummaryObject.
C6_ParseFailure ==
    \A i \in Inv :
        /\ MapReduceRan(i) /\ rawOutput[i] = "unparsable" =>
             /\ pc[i] \in {"parse", "failed"}
             /\ pc[i] = "parse" => err[i] = "none"
             /\ pc[i] = "failed" => err[i] = "SyntaxError"
             /\ finalSummaryObject[i] = Undefined
             /\ result[i] = Undefined
             /\ ~response[i].built
             /\ Count(trace[i], "generateFinalSummary") = 0
        /\ err[i] = "SyntaxError" /\ MapReduceRan(i) =>
             /\ rawOutput[i] = "unparsable"
             /\ calls[i].final = 1
        /\ err[i] = "Failed to generate final summary" =>
             /\ pc[i] = "failed"
             /\ Falsy(finalSummaryObject[i])
             /\ rawOutput[i] \in {"none", "null"}

C6_Witness ==
    /\ MapReduceRan(1)
    /\ rawOutput[1] = "unparsable"
    /\ calls[1].final = 1
    /\ pc[1] = "failed"
    /\ err[1] = "SyntaxError"

\* The summarizer of the call (Stuff or Map-Reduce) has returned its result
SummarizerReturned(i) ==
    pc[i] \in {"structure", "publish", "publishing", "returned", "resolved"}

\* C7 as stated: a run returns a report only if the final output has the
\* fixed shape, so every result a summarizer returned has all five fields.
C7_ShapeEnforced ==
    \A i \in Inv :
        SummarizerReturned(i) =>
            /\ result[i].type = "object"
            /\ \A f \in ReportFields : result[i][f] = "text"

\* C8 as stated: every model call and every shouldCollapse decision of an
\* invocation uses the model, prompts and threshold passed to that invocation.
C8_Isolation ==
    \A i \in Inv :
        /\ \A u \in used[i] : u.llm = llm[i] /\ u.prompts = req[i].prompts
        /\ lastDecision[i].count > 0 =>
             lastDecision[i].maxTokens = req[i].maxTokens

\* C9: append-only summaries.  Each chunk gets at most one generateSummary
\* call, and once the map superstep has closed the summaries list has one
\* entry per chunk, each made from exactly one chunk and every chunk covered
\* exactly once, whatever the order in which the tasks finished.
C9_AppendOnlySummaries ==
    \A i \in Inv :
        /\ \A c \in Chunk :
             /\ calls[i].map[c] <= 1
             /\ calls[i].map[c] = 1 => c \in Range(contents[i])
        /\ steps[i] >= 1 =>
             /\ Len(summaries[i]) = Len(contents[i])
             /\ \A c \in Range(contents[i]) :
                  /\ calls[i].map[c] = 1
                  /\ Cardinality({k \in 1..Len(summaries[i]) :
                                    summaries[i][k].chunks = {c}}) = 1

C9_Witness ==
    /\ steps[1] >= 1
    /\ Len(summaries[1]) = MaxChunks
    /\ \E k \in 1..MaxChunks : summaries[1][k].tok # summaries[1][1].tok

\* C10: map-reduce without collapse.  When the summaries of the N chunks sum
\* to at most the threshold, shouldCollapse is evaluated once and chooses
\* generateFinalSummary, no collapse round and no reduce call happens, and a
\* run that returns has made N map calls and one final call: N + 1 in all.
C10_NoCollapse ==
    \A i \in Inv :
        Decided(i) /\ SummariesTokens(i) <= req[i].maxTokens =>
            /\ lastDecision[i].count = 1
            /\ lastDecision[i].next = "generateFinalSummary"
            /\ calls[i].reduce = 0
            /\ Count(trace[i], "collapseSummaries") = 0
            /\ MapCalls(i) = Len(contents[i])
            /\ MapReduceReturned(i) =>
                 /\ calls[i].final = 1
                 /\ TotalCalls(i) = Len(contents[i]) + 1

C10_Witness ==
    /\ MapReduceReturned(1)
    /\ Len(contents[1]) = MaxChunks
    /\ SummariesTokens(1) = req[1].maxTokens
    /\ TotalCalls(1) = MaxChunks + 1

\* Prefix-greedy packing of docs under tokenMax with the documents' actual
\* token counts: what the groups of a collapse round are meant to be.
RECURSIVE PackFrom(_, _, _, _, _)
PackFrom(docs, k, sub, acc, tokenMax) ==
    IF k > Len(docs) THEN [ok |-> TRUE, lists |-> Append(acc, sub)]
    ELSE LET sub2 == Append(sub, docs[k]) IN
         IF LengthExceedsAwaited(sub2, tokenMax)
         THEN IF Len(sub2) = 1
              THEN [ok |-> FALSE, lists |-> <<>>]
              ELSE PackFrom(docs, k + 1, <<docs[k]>>, Append(acc, sub), tokenMax)
         ELSE PackFrom(docs, k + 1, sub2, acc, tokenMax)

GreedyPacking(docs, tokenMax) == PackFrom(docs, 1, <<>>, <<>>, tokenMax)

\* C11 as stated: one collapse round.  When the summaries of the N chunks
\* exceed the threshold and pack greedily into G groups each within it, the
\* first collapse round issues exactly G reduce calls and leaves G documents,
\* and a run that returns after that one round has made N + G + 1 model calls.
C11_OneCollapseRound ==
    \A i \in Inv :
        LET docs == collectSummaries(summaries[i])
            pack == GreedyPacking(docs, req[i].maxTokens)
            G == Len(pack.lists)
        IN /\ Count(trace[i], "collapseSummaries") = 1
           /\ lengthFunction(docs) > req[i].maxTokens
           /\ pack.ok
           => /\ calls[i].reduce = G
              /\ Len(collapsedSummaries[i]) = G
              /\ MapReduceReturned(i) =>
                   TotalCalls(i) = Len(contents[i]) + G + 1

\* C12: the stuff path.  Once the stuff chain has been invoked for a request,
\* it has been invoked exactly once, on all documents of the request in input
\* order; no splitter ran, no chunk exists, no graph node completed and no map,
\* reduce or final call was issued; and what the request goes on with is that
\* call's parsed output.
C12_StuffPath ==
    \A i \in Inv :
        calls[i].stuff > 0 =>
            /\ calls[i].stuff = 1
            /\ TotalCalls(i) = 1
            /\ stuffContext[i] = req[i].docs
            /\ ~MapReduceRan(i)
            /\ contents[i] = <<>>
            /\ trace[i] = <<>>
            /\ steps[i] = 0
            /\ pc[i] \in {"structure", "publish", "publishing", "returned"} =>
                 /\ ~parseThrows(rawOutput[i])
                 /\ result[i] = parse(rawOutput[i])
            /\ response[i].built =>
                 \A f \in ReportFields :
                     response[i][f] = Field(parse(rawOutput[i]), f)

C12_Witness ==
    /\ pc[1] = "returned"
    /\ calls[1].stuff = 1
    /\ req[1].algorithm = "stuff"
    /\ Len(req[1].docs) = 2
    /\ req[1].docs[1] # req[1].docs[2]
    /\ stuffContext[1] = req[1].docs
    /\ result[1].type = "object"

\* C13: a publishing failure is not swallowed.  When generateDocument throws
\* after the summary was computed and structured, the request has failed with
\* that error and returned no response; every request that returned a response
\* published exactly once and carries the document URL.
C13_PublishFailure ==
    \A i \in Inv :
        /\ err[i] = "InternalServerErrorException" =>
             /\ pc[i] = "failed"
             /\ response[i].built
             /\ published[i] = 1
             /\ documentUrl[i] = "none"
        /\ pc[i] = "returned" =>
             /\ err[i] = "none"
             /\ published[i] = 1
             /\ documentUrl[i] = "url"

C13_Witness ==
    /\ err[1] = "InternalServerErrorException"
    /\ pc[1] = "failed"
    /\ calls[1].stuff = 1
    /\ Len(req[1].docs) = 2
    /\ response[1].summary = "text"

\* C14 as stated: whenever the token-aware splitter has failed, the run goes
\* on into the map step with the fallback splitter's chunks and the failure
\* is not surfaced.
C14_Original ==
    \A i \in Inv :
        logged[i] > 0 =>
            /\ splitter[i].name = "RecursiveCharacterTextSplitter"
            /\ err[i] # "SplitterError"
            /\ pc[i] # "fallbackSplit" => Len(contents[i]) = req[i].chunks

\* C14, amended: splitter fallback.  When the token-aware splitter has failed,
\* the failure was logged once and the character-based recursive splitter was
\* built with the chunkSize and chunkOverlap of the call.  If the fallback
\* accepts them, the token-aware splitter's failure is not surfaced: no chunk
\* exists and no model call is made while the fallback is splitting, and once
\* it has returned the run goes on into the map step with one task per chunk
\* of the fallback.  If the fallback rejects them too (chunkOverlap >=
\* chunkSize), its exception fails the call before any chunk exists and any
\* model call is made.  Without a failure nothing is logged and the
\* token-aware splitter's chunks are used.
C14_SplitterFallback ==
    \A i \in Inv :
        /\ logged[i] <= 1
        /\ logged[i] = 1 =>
             /\ splitter[i].name = "RecursiveCharacterTextSplitter"
             /\ splitter[i].chunkSize = req[i].chunkSize
             /\ splitter[i].chunkOverlap = req[i].chunkOverlap
             /\ IF req[i].chunkOverlap >= req[i].chunkSize
                THEN /\ pc[i] = "failed"
                     /\ err[i] = "SplitterError"
                     /\ contents[i] = <<>>
                     /\ TotalCalls(i) = 0
                ELSE /\ err[i] # "SplitterError"
                     /\ pc[i] = "fallbackSplit" =>
                          /\ err[i] = "none"
                          /\ contents[i] = <<>>
                          /\ pendingMap[i] = {}
                          /\ TotalCalls(i) = 0
                     /\ pc[i] # "fallbackSplit" =>
                          /\ Len(contents[i]) = req[i].chunks
                          /\ pc[i] = "generateSummary" /\ MapCalls(i) = 0 =>
                               pendingMap[i] = 1..req[i].chunks
        /\ MapReduceRan(i) /\ logged[i] = 0 =>
             /\ splitter[i].name = "TokenTextSplitter"
             /\ err[i] # "SplitterError"
        /\ err[i] = "SplitterError" => logged[i] = 1

C14_Witness ==
    /\ logged[1] = 1
    /\ splitter[1].name = "RecursiveCharacterTextSplitter"
    /\ splitter[1].chunkSize # DefaultChunkSize
    /\ Len(contents[1]) = MaxChunks
    /\ pc[1] = "collectSummaries"
    /\ err[1] = "none"

\* C15: model validation.  createModelInstance has accepted the request's
\* (provider, model) pair exactly when the model is in the enumerated set of
\* that provider; for every other pair the request has failed with
\* BadRequestException without a model instance and without any model call.
SupportedPairs ==
    ({"openai"} \X {"gpt-3.5-turbo", "gpt-4", "gpt-4o-mini"})
        \cup ({"google"} \X {"gemini-2.0-flash"})

C15_ModelValidation ==
    \A i \in Inv :
        req[i].caller = "AiEngineService" /\ pc[i] \notin {"request", "createModel"} =>
            LET provider == IF req[i].provider = "undefined" THEN "openai"
                            ELSE req[i].provider
                model == IF req[i].model = "undefined" THEN "gpt-3.5-turbo"
                         ELSE req[i].model
                supported == <<provider, model>> \in SupportedPairs
            IN /\ supported <=> llm[i] = <<provider, model>>
               /\ supported <=> err[i] # "BadRequestException"
               /\ ~supported =>
                    /\ pc[i] = "failed"
                    /\ llm[i] = NoLlm
                    /\ TotalCalls(i) = 0
                    /\ used[i] = {}
                    /\ totalTokens[i] = 0

C15_Witness ==
    /\ pc[1] = "failed"
    /\ err[1] = "BadRequestException"
    /\ req[1].provider = "google"
    /\ req[1].model = "gpt-4o-mini"

\* C16 as stated: the single-document guard.  When the collapsed set is one
\* document whose token count is over the threshold, the run goes to
\* generateFinalSummary and does not enter collapseSummaries for it.
C16_SingleDocumentGuard ==
    \A i \in Inv :
        /\ Decided(i)
        /\ Len(collapsedSummaries[i]) = 1
        /\ lengthFunction(collapsedSummaries[i]) > req[i].maxTokens
        => /\ lastDecision[i].next = "generateFinalSummary"
           /\ pc[i] # "collapseSummaries"

\* C17 as stated: a request that omits the algorithm field is handled like
\* one with algorithm auto: Stuff if the token total is below MAX_TOKENS,
\* Map-Reduce otherwise.
C17_DefaultAuto ==
    \A i \in Inv :
        pc[i] \in {"stuff", "mapReduce"} /\ req[i].algorithm = "undefined" =>
            (pc[i] = "stuff" <=> totalTokens[i] < MAX_TOKENS)

\* C18: the barrier before collectSummaries.  While a generateSummary task of
\* the map superstep is still running, collectSummaries has not run and the
\* collapsed set is empty; once collectSummaries is due or has run, every
\* chunk's task has returned its summary; and when a map task has thrown, the
\* run has failed and collectSummaries never runs, whatever the other tasks
\* of the superstep go on to do.
MapTaskThrew(i) ==
    /\ err[i] = "ModelInvocationError"
    /\ calls[i].reduce + calls[i].final + calls[i].stuff = 0

C18_Barrier ==
    \A i \in Inv :
        /\ pendingMap[i] # {} =>
             /\ Count(trace[i], "collectSummaries") = 0
             /\ pc[i] \in {"generateSummary", "failed"}
             /\ summaries[i] = <<>>
             /\ collapsedSummaries[i] = <<>>
             /\ steps[i] = 0
             /\ calls[i].reduce + calls[i].final = 0
        /\ pc[i] = "collectSummaries" \/ Count(trace[i], "collectSummaries") > 0 =>
             /\ pendingMap[i] = {}
             /\ awaiting[i] = {}
             /\ Count(trace[i], "generateSummary") = Len(contents[i])
             /\ \A c \in Range(contents[i]) : mapWrites[i][c] # NoContent
        /\ MapTaskThrew(i) =>
             /\ pc[i] = "failed"
             /\ Count(trace[i], "collectSummaries") = 0
             /\ summaries[i] = <<>>
             /\ collapsedSummaries[i] = <<>>
             /\ steps[i] = 0

C18_Witness ==
    /\ MapTaskThrew(1)
    /\ Len(contents[1]) = MaxChunks
    /\ pendingMap[1] = {}
    /\ MapCalls(1) = MaxChunks
    /\ Count(trace[1], "generateSummary") = MaxChunks - 1
    /\ Count(trace[1], "collectSummaries") = 0

\* C19: the shouldCollapse decision.  It is evaluated once after
\* collectSummaries and once after every collapse round, on the collapsed set
\* that node has just written; it chooses collapseSummaries exactly when the
\* token sum of that set is strictly greater than the threshold (a sum equal
\* to the threshold goes to generateFinalSummary), and the graph goes where it
\* says.
C19_ShouldCollapse ==
    \A i \in Inv :
        /\ lastDecision[i].count + (IF pc[i] = "shouldCollapse" THEN 1 ELSE 0) =
             Count(trace[i], "collectSummaries") + Count(trace[i], "collapseSummaries")
        /\ Decided(i) =>
             /\ lastDecision[i].numTokens = lengthFunction(collapsedSummaries[i])
             /\ lastDecision[i].next = "collapseSummaries" <=>
                  lengthFunction(collapsedSummaries[i]) > req[i].maxTokens
             /\ lastDecision[i].next = "generateFinalSummary" <=>
                  lengthFunction(collapsedSummaries[i]) <= req[i].maxTokens
             /\ pc[i] \in {"collapseSummaries", "generateFinalSummary"} =>
                  pc[i] = lastDecision[i].next

C19_Witness ==
    /\ pc[1] = "generateFinalSummary"
    /\ lastDecision[1].count = 3
    /\ lastDecision[1].numTokens = req[1].maxTokens
    /\ SummariesTokens(1) > req[1].maxTokens

\* C20 as stated: collapse grouping.  The groups of a collapse round,
\* concatenated in order, are the collapsed set the round started from, no
\* group is empty, and the token count of every group is at most the threshold.
RECURSIVE Flatten(_)
Flatten(lists) == IF lists = <<>> THEN <<>> ELSE Head(lists) \o Flatten(Tail(lists))

C20_Grouping ==
    \A i \in Inv :
        docLists[i].lists # <<>> =>
            /\ Flatten(docLists[i].lists) = docLists[i].docs
            /\ \A g \in 1..Len(docLists[i].lists) :
                 /\ docLists[i].lists[g] # <<>>
                 /\ lengthFunction(docLists[i].lists[g]) <= req[i].maxTokens

\* C21 as stated: in a completed collapse round the number of reduce calls is
\* the number of groups with more than one member, and the document of a
\* group of exactly one is carried unchanged into the new set.
C21_SingleGroupPassThrough ==
    \A i \in Inv :
        RoundCompleted(i) =>
            LET lists == docLists[i].lists IN
            /\ docLists[i].calls =
                 Cardinality({g \in 1..Len(lists) : Len(lists[g]) > 1})
            /\ \A g \in 1..Len(lists) :
                 Len(lists[g]) = 1 => docLists[i].results[g] = lists[g][1]

\* C23: no automatic retry.  Within one invocation each chunk is sent to the
\* model at most once, the reduce calls of a collapse round are at most one
\* per group, the final call and the stuff call are issued at most once, and
\* once a model call has failed no chunk that was sent to the model is sent
\* again and no reduce, final or stuff call is issued any more.
C23_AtMostOnce ==
    \A i \in Inv :
        /\ \A c \in Chunk : calls[i].map[c] <= 1
        /\ docLists[i].calls <= Len(docLists[i].lists)
        /\ calls[i].final <= 1
        /\ calls[i].stuff <= 1

C23_AfterFailure ==
    \A i \in Inv :
        err[i] = "ModelInvocationError" =>
            /\ \A c \in Chunk : calls[i].map[c] > 0 =>
                                   calls'[i].map[c] = calls[i].map[c]
            /\ calls'[i].reduce = calls[i].reduce
            /\ calls'[i].final = calls[i].final
            /\ calls'[i].stuff = calls[i].stuff
            /\ docLists'[i].calls = docLists[i].calls

C23_NoRetry == []C23_AtMostOnce /\ [][C23_AfterFailure]_vars

C23_Witness ==
    /\ MapTaskThrew(1)
    /\ Len(contents[1]) = MaxChunks
    /\ pendingMap[1] = {}
    /\ MapCalls(1) = MaxChunks
    /\ trace[1] = <<>>

\* C24: collapsedSummaries is replaced wholesale.  After a completed collapse
\* round the collapsed set is exactly the round's results: one document per
\* group, in group order, each made from the chunks of its group and none of
\* them a document of the old set; it is never the old set with the results
\* appended.
C24_ReplacedWholesale ==
    \A i \in Inv :
        RoundCompleted(i) =>
            LET lists == docLists[i].lists
                old == docLists[i].docs
                new == collapsedSummaries[i]
            IN /\ Len(new) = Len(lists)
               /\ \A g \in 1..Len(lists) :
                    /\ new[g].pageContent.chunks = UnionChunks(lists[g])
                    /\ new[g] \notin Range(old)
               /\ old # <<>> /\ Len(new) >= Len(old) =>
                    SubSeq(new, 1, Len(old)) # old

C24_Witness ==
    /\ RoundCompleted(1)
    /\ Len(docLists[1].docs) = MaxChunks
    /\ Len(collapsedSummaries[1]) = 1
    /\ Count(trace[1], "collapseSummaries") = 1
    /\ pc[1] = "generateFinalSummary"

\* C25: summaries only grows.  Every step leaves the entries summaries already
\* has in place; the map superstep adds exactly one entry per generateSummary
\* task; collectSummaries, collapseSummaries and generateFinalSummary leave
\* summaries and the chunk contents unchanged.
C25_OnePerTask ==
    \A i \in Inv :
        /\ Len(summaries[i]) \in {0, Count(trace[i], "generateSummary")}
        /\ steps[i] >= 1 => Len(summaries[i]) = Count(trace[i], "generateSummary")

C25_Step ==
    \A i \in Inv :
        /\ Len(summaries[i]) <= Len(summaries'[i])
        /\ SubSeq(summaries'[i], 1, Len(summaries[i])) = summaries[i]
        /\ pc[i] \in {"generateSummary", "collectSummaries", "shouldCollapse",
                      "collapseSummaries", "reduce", "reduceResult",
                      "generateFinalSummary", "final", "finalResult", "parse",
                      "streamEnd"} =>
             contents'[i] = contents[i]
        /\ pc[i] \in {"collectSummaries", "shouldCollapse", "collapseSummaries",
                      "reduce", "reduceResult", "generateFinalSummary", "final",
                      "finalResult", "parse", "streamEnd"} =>
             summaries'[i] = summaries[i]

C25_SummariesOnlyGrow == []C25_OnePerTask /\ [][C25_Step]_vars

C25_Witness ==
    /\ Len(summaries[1]) = MaxChunks
    /\ Count(trace[1], "collapseSummaries") >= 1
    /\ Count(trace[1], "generateFinalSummary") = 1
    /\ pc[1] = "streamEnd"

\* C26: collectSummaries.  Right after collectSummaries the collapsed set has
\* one document per summary, in the order of summaries, the content of the
\* k-th document being the k-th summary; every document is made from a summary
\* and carries nothing else.
C26_CollectSummaries ==
    \A i \in Inv :
        /\ Count(trace[i], "collectSummaries") = 1
        /\ Count(trace[i], "collapseSummaries") = 0
        =>
            /\ Len(collapsedSummaries[i]) = Len(summaries[i])
            /\ Len(collapsedSummaries[i]) = Len(contents[i])
            /\ \A k \in 1..Len(collapsedSummaries[i]) :
                 /\ DOMAIN collapsedSummaries[i][k] = {"pageContent"}
                 /\ collapsedSummaries[i][k].pageContent = summaries[i][k]
                 /\ collapsedSummaries[i][k].pageContent.chunks = {contents[i][k]}

C26_Witness ==
    /\ pc[1] = "shouldCollapse"
    /\ Count(trace[1], "collapseSummaries") = 0
    /\ Len(collapsedSummaries[1]) = MaxChunks
    /\ collapsedSummaries[1][1].pageContent.tok
         # collapsedSummaries[1][MaxChunks].pageContent.tok

\* C27: token counting.  The orchestrator's total is the sum of the token
\* counts of the request's documents, and the number shouldCollapse compares
\* with the threshold is the sum of the token counts of the documents of the
\* collapsed set, equal documents counted once each time they occur; the
\* count of an empty set is 0.
RECURSIVE SumTo(_, _)
SumTo(f, n) == IF n = 0 THEN 0 ELSE f[n] + SumTo(f, n - 1)

C27_TokenCounting ==
    /\ lengthFunction(<<>>) = 0
    /\ \A i \in Inv :
        /\ pc[i] \in {"select", "stuff", "mapReduce"} =>
             totalTokens[i] = SumTo(req[i].docs, Len(req[i].docs))
        /\ Decided(i) =>
             lastDecision[i].numTokens =
                 SumTo([k \in 1..Len(collapsedSummaries[i]) |->
                          collapsedSummaries[i][k].pageContent.tok],
                       Len(collapsedSummaries[i]))

C27_Witness ==
    /\ Decided(1)
    /\ lastDecision[1].count = 1
    /\ Len(collapsedSummaries[1]) = MaxChunks
    /\ lastDecision[1].numTokens = MaxChunks * MaxTok

\* C28: ordering in the orchestrator.  Within one request the document
\* publisher is invoked at most once, and only when the chosen summarizer has
\* completed its last model call and returned the parsed result and that
\* result has been mapped into the response shape; a request whose summarizer
\* has not returned, or has thrown, never reaches the publisher.
C28_PublishOrdering ==
    \A i \in Inv :
        /\ published[i] <= 1
        /\ pc[i] = "publish" \/ published[i] = 1 =>
             /\ response[i].built
             /\ calls[i].stuff + calls[i].final = 1
             /\ calls[i].final = 1 =>
                  trace[i][Len(trace[i])] = "generateFinalSummary"
             /\ rawOutput[i] \notin {"none", "unparsable"}
             /\ result[i] = parse(rawOutput[i])
             /\ \A f \in ReportFields : response[i][f] = Field(result[i], f)
        /\ ~response[i].built => published[i] = 0
        /\ err[i] \notin {"none", "InternalServerErrorException"} =>
             published[i] = 0

C28_Witness ==
    /\ pc[1] = "returned"
    /\ published[1] = 1
    /\ calls[1].stuff = 1
    /\ req[1].algorithm = "auto"
    /\ response[1].summary = "text"

\* C29 as stated: MapReduceService.summarize returns a value only if a
\* generateFinalSummary step ran and emitted a non-empty structured object;
\* a run that ends with no exception from a step and without one, such as a
\* run over zero chunks, has thrown 'Failed to generate final summary' and
\* returned nothing.
C29_ReturnsOnlyFinal ==
    \A i \in Inv :
        /\ MapReduceReturned(i) =>
             /\ Count(trace[i], "generateFinalSummary") = 1
             /\ result[i].type = "object"
             /\ result[i].keys = "some"
        /\ MapReduceRan(i) /\ req[i].chunks = 0 /\ Terminated(i)
             /\ err[i] # "SplitterError" =>
             /\ err[i] = "Failed to generate final summary"
             /\ result[i] = Undefined

\* C30: structureResponse is total.  For every summarizer result (undefined,
\* null, an empty object, an object with any of the report fields missing or
\* null) each of the five report replacements is the field's value when the
\* result has it and the empty string otherwise, and projectName, from, to,
\* projectStatus and docName are those of the caller, unchanged.
C30_StructureResponseTotal ==
    \A i \in Inv :
        response[i].built =>
            /\ \A f \in ReportFields :
                 response[i][f] =
                     IF result[i].type = "object" /\ result[i][f] = "text"
                     THEN "text" ELSE ""
            /\ \A f \in MetaFields : response[i][f] = req[i].meta[f]

C30_Witness ==
    /\ response[1].built
    /\ result[1].type = "object"
    /\ result[1].summary = "text"
    /\ result[1].riskBlockerActionNeeded = "null"
    /\ result[1].completed = "absent"
    /\ req[1].meta.projectName = "undefined"
    /\ req[1].meta.docName = "docName"
    /\ response[1].docName = "docName"

====
